---- MODULE Spec2Model ----
(***************************************************************************)
(* Model of local_areas.py: the Overpass multi-endpoint query executor     *)
(* (overpass_post), the "no-guess" town resolver (score_candidate,         *)
(* resolve_town_no_guess, cmd_resolve) and the child-place pipeline        *)
(* (dedupe_and_sort, cmd_generate).                                        *)
(*                                                                         *)
(* Four specifications share the module, one per component:                *)
(*   SpecRQE      overpass_post, one action per HTTP attempt               *)
(*   SpecResolve  resolve_town_no_guess on one request                     *)
(*   SpecDedupe   dedupe_and_sort applied to an input list                 *)
(*   SpecBatch    cmd_resolve / cmd_generate over a batch of rows          *)
(***************************************************************************)
EXTENDS Integers, Sequences, FiniteSets, TLC

VARIABLES
    \* ---- overpass_post ----
    endpoints,      \* len(OVERPASS_URLS), the configured endpoint list
    round,          \* _round, 1..6
    url,            \* position of the for-loop in OVERPASS_URLS, 1..endpoints
    any_progress,   \* any_progress
    last_err,       \* last_err ("None" while nothing was recorded)
    backoff,        \* backoff, seconds
    sleeps,         \* the time.sleep(backoff) calls made so far, in order
    hint,           \* seconds of the latest Retry-After sleep (0: none yet)
    attempts,       \* number of requests.post calls made so far
    pc,             \* "attempt" | "returned" | "raised"
    result,         \* the value returned ("None" until a return)
    \* history of the attempts made, for the statements about them
    lastSignal,     \* failure kind of the most recent failed attempt
    transientOnly,  \* every attempt so far answered 429/502/503/504
    rateOnly,       \* every attempt so far answered 429
    okAt,           \* number of the attempt that succeeded (0: none)
    \* ---- resolve_town_no_guess ----
    t,              \* the TownInput
    candidates,     \* what nominatim_search returned
    rpc,            \* "start" | "fallback" | "returned" | "raised"
    resolved,       \* first component of the returned tuple (NoCandidate: None)
    step,           \* which step returned: 0 none yet, 1..4, 5 = final None
    matches,        \* what overpass_find_uk_admin_relation returned
    fallbackIssued, \* overpass_find_uk_admin_relation was called
    \* ---- dedupe_and_sort ----
    children,       \* the argument
    out,            \* the returned list
    dpc,            \* "call" | "done"
    \* ---- cmd_resolve / cmd_generate ----
    cmd,            \* "resolve" | "generate" | "idle"
    rows,           \* towns (resolve) or rows of the map csv (generate)
    i,              \* index of the row the for-loop is at
    seen,           \* per processed row, what happened to it
    map_rows,       \* cmd_resolve: map_rows
    review_rows,    \* cmd_resolve: review_rows
    long_rows,      \* cmd_generate: long_rows
    pivot_rows,     \* cmd_generate: pivot_rows
    files,          \* the csv files written by write_csv
    bpc             \* "loop" | "done" | "crashed"

rqeVars == <<endpoints, round, url, any_progress, last_err, backoff, sleeps,
             hint, attempts, pc, result, lastSignal, transientOnly, rateOnly, okAt>>
resVars == <<t, candidates, rpc, resolved, step, matches, fallbackIssued>>
ddVars == <<children, out, dpc>>
batchVars == <<cmd, rows, i, seen, map_rows, review_rows, long_rows, pivot_rows,
               files, bpc>>
vars == <<rqeVars, resVars, ddVars, batchVars>>

Min(a, b) == IF a < b THEN a ELSE b

(***************************************************************************)
(* Bounds of the model.                                                    *)
(***************************************************************************)
\* longest endpoint list considered (the shipped list has 4 entries)
MaxEndpoints == 4
\* longest candidate list nominatim_search returns in the model
MaxCandidates == 2
\* longest input list of dedupe_and_sort
MaxChildren == 3
\* longest batch of cmd_resolve / cmd_generate
MaxBatch == 3

(***************************************************************************)
(* overpass_post                                                           *)
(***************************************************************************)
\* range(1, 6) in place of range(1, 7)
RoundsOneShort == 6 - 1
\* for _round in range(1, 7)
Rounds == 6
\* backoff = 2
BackoffBase == 2
\* max_backoff = 60
max_backoff == 60

\* HTTP answers of one endpoint: the status, the Retry-After header ("None":
\* absent) and whether r.json() can parse the body.
Statuses == {200, 400, 429, 500, 502, 503, 504}
RetryAfterValues == {"None", "soon", "5", "120"}
Responses == [status : Statuses, retry_after : RetryAfterValues, parsable : BOOLEAN]

\* ra.isdigit() and int(ra)
IsDigit(ra) == ra \in {"5", "120"}
IntOf(ra) == CASE ra = "5" -> 5 [] ra = "120" -> 120 [] OTHER -> 0

\* r.raise_for_status(): raises for 4xx and 5xx
RaisesForStatus(status) == status >= 400

IdleRQE ==
    /\ endpoints = 0 /\ round = 0 /\ url = 0 /\ any_progress = FALSE
    /\ last_err = "None" /\ backoff = 0 /\ sleeps = <<>> /\ hint = 0
    /\ attempts = 0 /\ pc = "idle" /\ result = "None"
    /\ lastSignal = "none" /\ transientOnly = TRUE /\ rateOnly = TRUE /\ okAt = 0

\* State at the first requests.post of a call.
InitRQE ==
    /\ endpoints \in 1..MaxEndpoints
    /\ round = 1 /\ url = 1 /\ any_progress = FALSE
    /\ last_err = "None" /\ backoff = BackoffBase /\ sleeps = <<>> /\ hint = 0
    /\ attempts = 0 /\ pc = "attempt" /\ result = "None"
    /\ lastSignal = "none" /\ transientOnly = TRUE /\ rateOnly = TRUE /\ okAt = 0

\* The "continue" of the inner loop after a failed attempt that left
\* any_progress = progress: the next endpoint of the round, or, after the
\* last one, the end of the round (sleep, doubling, the bail-out test, the
\* next round or the raise after the loop).
Continue(progress) ==
    IF url < endpoints
    THEN /\ url' = url + 1
         /\ UNCHANGED <<round, backoff, sleeps, pc>>
         /\ any_progress' = progress
    ELSE /\ sleeps' = Append(sleeps, backoff)
         /\ backoff' = Min(backoff * 2, max_backoff)
         /\ IF progress /\ round < Rounds
            THEN /\ round' = round + 1
                 /\ url' = 1
                 /\ any_progress' = FALSE
                 /\ pc' = "attempt"
            ELSE /\ pc' = "raised"
                 /\ any_progress' = progress
                 /\ UNCHANGED <<round, url>>

\* requests.post itself raises (connection error, timeout): the outer except.
PostRaises ==
    /\ pc = "attempt"
    /\ attempts' = attempts + 1
    /\ last_err' = "ConnectionError"
    /\ Continue(TRUE)
    /\ lastSignal' = "transport"
    /\ transientOnly' = FALSE /\ rateOnly' = FALSE
    /\ UNCHANGED <<endpoints, hint, result, okAt>>
    /\ UNCHANGED <<resVars, ddVars, batchVars>>

\* a 429 handled without any_progress = True
RateLimitedNoProgress(r) ==
    /\ r.status = 429
    /\ hint' = IF r.retry_after # "None" /\ IsDigit(r.retry_after)
               THEN Min(IntOf(r.retry_after), max_backoff)
               ELSE hint
    /\ Continue(any_progress)
    /\ lastSignal' = "rate_limit"
    /\ UNCHANGED <<last_err, result, okAt, transientOnly, rateOnly>>

\* requests.post answers with status 429.
RateLimited(r) ==
    /\ r.status = 429
    /\ hint' = IF r.retry_after # "None" /\ IsDigit(r.retry_after)
               THEN Min(IntOf(r.retry_after), max_backoff)
               ELSE hint
    /\ Continue(TRUE)
    /\ lastSignal' = "rate_limit"
    /\ UNCHANGED <<last_err, result, okAt, transientOnly, rateOnly>>

\* requests.post answers with status 502, 503 or 504.
ServerError(r) ==
    /\ r.status \in {502, 503, 504}
    /\ Continue(TRUE)
    /\ lastSignal' = "server_error"
    /\ rateOnly' = FALSE
    /\ UNCHANGED <<last_err, hint, result, okAt, transientOnly>>

\* any other status for which raise_for_status() raises: the outer except.
HttpError(r) ==
    /\ r.status \notin {429, 502, 503, 504}
    /\ RaisesForStatus(r.status)
    /\ last_err' = "HTTPError"
    /\ Continue(TRUE)
    /\ lastSignal' = "http_error"
    /\ transientOnly' = FALSE /\ rateOnly' = FALSE
    /\ UNCHANGED <<hint, result, okAt>>

\* success status, r.json() raises: the inner except.
ParseFailure(r) ==
    /\ r.status \notin {429, 502, 503, 504}
    /\ ~RaisesForStatus(r.status)
    /\ ~r.parsable
    /\ last_err' = "JSONDecodeError"
    /\ Continue(TRUE)
    /\ lastSignal' = "parse"
    /\ transientOnly' = FALSE /\ rateOnly' = FALSE
    /\ UNCHANGED <<hint, result, okAt>>

\* success status and a parsable body: return r.json()
Success(r) ==
    /\ r.status \notin {429, 502, 503, 504}
    /\ ~RaisesForStatus(r.status)
    /\ r.parsable
    /\ pc' = "returned"
    /\ result' = "body"
    /\ okAt' = attempts + 1
    /\ UNCHANGED <<round, url, any_progress, last_err, backoff, sleeps, hint,
                   lastSignal, transientOnly, rateOnly>>

\* One requests.post that answers, and the handling of its answer.
Answered ==
    /\ pc = "attempt"
    /\ attempts' = attempts + 1
    /\ UNCHANGED endpoints
    /\ UNCHANGED <<resVars, ddVars, batchVars>>

PostRateLimited == \E r \in Responses : Answered /\ RateLimited(r)
PostServerError == \E r \in Responses : Answered /\ ServerError(r)
PostHttpError == \E r \in Responses : Answered /\ HttpError(r)
PostParseFailure == \E r \in Responses : Answered /\ ParseFailure(r)
PostSuccess == \E r \in Responses : Answered /\ Success(r)

NextRQE ==
    \/ PostRaises
    \/ PostRateLimited
    \/ PostServerError
    \/ PostHttpError
    \/ PostParseFailure
    \/ PostSuccess

(***************************************************************************)
(* score_candidate, resolve_town_no_guess                                  *)
(***************************************************************************)
COUNTRY_CODES == "gb"
\* the threshold of the final fallback: pair[0] >= 10
Threshold == 10

\* str.lower() on the words display names and requests are made of
Lower(w) ==
    CASE w = "Dudley" -> "dudley"
      [] w = "West Midlands" -> "west midlands"
      [] w = "United Kingdom" -> "united kingdom"
      [] w = "Borough" -> "borough"
      [] OTHER -> w

\* A display name is the set of the words it is made of; x in dn
\* (substring test on the lowered name) is membership of the lowered word.
LowerName(display_name) == {Lower(w) : w \in display_name}

Labels ==
    { {},
      {"Dudley"},
      {"Dudley", "United Kingdom"},
      {"Dudley", "West Midlands", "United Kingdom"},
      {"Dudley", "West Midlands", "United Kingdom", "Borough"} }

\* Candidate, without lat/lon (no decision reads them)
CandidateKinds ==
    [osm_type : {"relation", "way"},
     class_ : {"boundary", "place"},
     type_ : {"administrative", "town"},
     display_name : Labels]

WithId(k, id) ==
    [osm_type |-> k.osm_type, class_ |-> k.class_, type_ |-> k.type_,
     display_name |-> k.display_name, osm_id |-> id]

\* None, as the first component of the returned tuple
NoCandidate ==
    [osm_type |-> "", class_ |-> "", type_ |-> "", display_name |-> {}, osm_id |-> 0]

\* TownInput as read_towns_csv builds it: town non-empty, country defaulted
TownInputs ==
    [town : {"Dudley"}, county_or_region : {"", "West Midlands"},
     country : {"United Kingdom"}]

score_candidate(c, tn) ==
    LET dn == LowerName(c.display_name) IN
      (IF c.osm_type # "relation" THEN 0 - 5 ELSE 2)
    + (IF c.class_ = "boundary" THEN 6 ELSE 0)
    + (IF c.type_ = "administrative" THEN 6 ELSE 0)
    + (IF tn.town # "" /\ Lower(tn.town) \in dn THEN 2 ELSE 0)
    + (IF tn.county_or_region # "" /\ Lower(tn.county_or_region) \in dn THEN 2 ELSE 0)
    + (IF tn.country # "" /\ Lower(tn.country) \in dn THEN 1 ELSE 0)
    + (IF "borough" \in dn THEN 1 ELSE 0)

\* sorted(((score_candidate(c, t), c) for c in cs), key=lambda x: x[0],
\* reverse=True): stable, so equal scores keep their order in cs.
RECURSIVE InsertByScore(_, _)
InsertByScore(sorted, p) ==
    IF sorted = <<>> THEN <<p>>
    ELSE IF sorted[Len(sorted)].score >= p.score THEN Append(sorted, p)
    ELSE Append(InsertByScore(SubSeq(sorted, 1, Len(sorted) - 1), p),
                sorted[Len(sorted)])

RECURSIVE Scored(_, _)
Scored(cs, tn) ==
    IF cs = <<>> THEN <<>>
    ELSE InsertByScore(Scored(SubSeq(cs, 1, Len(cs) - 1), tn),
                       [score |-> score_candidate(cs[Len(cs)], tn), c |-> cs[Len(cs)]])

\* the filter without its class_ test
IsAdminRelAnyClass(c) == c.osm_type = "relation" /\ c.type_ = "administrative"

IsAdminRel(c) ==
    c.osm_type = "relation" /\ c.class_ = "boundary" /\ c.type_ = "administrative"

admin_rels(cs) == SelectSeq(cs, IsAdminRel)

Returned(n, c) == [step |-> n, resolved |-> c]

\* Steps 1 and 2: the Nominatim list alone. step 0: fall through.
FromNominatim(cs, tn) ==
    LET ar == admin_rels(cs)
        scored == Scored(ar, tn)
    IN  IF Len(ar) = 1 THEN Returned(1, ar[1])
        ELSE IF Len(ar) > 1 /\ Len(scored) >= 2 /\ scored[1].score > scored[2].score
        THEN Returned(2, scored[1].c)
        ELSE Returned(0, NoCandidate)

\* The Candidate built from the single fallback match (rid, nm)
FallbackCandidate(m) ==
    [osm_type |-> "relation", class_ |-> "boundary", type_ |-> "administrative",
     display_name |-> m.nm \cup {"United Kingdom"}, osm_id |-> m.rid]

\* Final fallback: the candidates at or above the threshold
Passing(cs, tn) ==
    LET sc == Scored(cs, tn) IN SelectSeq(sc, LAMBDA p : p.score >= Threshold)

\* the final fallback with >= in place of > between the two best
FinalFallbackNonStrict(cs, tn) ==
    LET passing == Passing(cs, tn) IN
      IF Len(passing) = 1 THEN Returned(4, passing[1].c)
      ELSE IF Len(passing) >= 2 /\ passing[1].score >= passing[2].score
      THEN Returned(4, passing[1].c)
      ELSE Returned(5, NoCandidate)

\* lines 343-350
FinalFallback(cs, tn) ==
    LET passing == Passing(cs, tn) IN
      IF Len(passing) = 1 THEN Returned(4, passing[1].c)
      ELSE IF Len(passing) >= 2 /\ passing[1].score > passing[2].score
      THEN Returned(4, passing[1].c)
      ELSE Returned(5, NoCandidate)

\* Steps 3 and 4, given the matches overpass_find_uk_admin_relation returned
FromFallback(cs, tn, ms) ==
    IF Len(ms) = 1 THEN Returned(3, FallbackCandidate(ms[1]))
    ELSE FinalFallback(cs, tn)

\* what overpass_find_uk_admin_relation can return: (rid, name) pairs
MatchNames == { {"Dudley"}, {"Borough", "Dudley"} }
MatchLists ==
    { <<>> }
    \cup { << [rid |-> 101, nm |-> a] >> : a \in MatchNames }
    \cup { << [rid |-> 101, nm |-> a], [rid |-> 102, nm |-> b] >> :
             a \in MatchNames, b \in MatchNames }

IdleResolve ==
    /\ t = [town |-> "", county_or_region |-> "", country |-> ""]
    /\ candidates = <<>> /\ rpc = "idle" /\ resolved = NoCandidate /\ step = 0
    /\ matches = <<>> /\ fallbackIssued = FALSE

\* resolve_town_no_guess(t) with nominatim_search(t) = candidates, a list of
\* at most MaxCandidates candidates; osm_id is the position in the list
InitResolve ==
    /\ t \in TownInputs
    /\ \E n \in 0..MaxCandidates : \E ks \in [1..n -> CandidateKinds] :
          candidates = [j \in 1..n |-> WithId(ks[j], j)]
    /\ rpc = "start" /\ resolved = NoCandidate /\ step = 0
    /\ matches = <<>> /\ fallbackIssued = FALSE

\* lines 311-329: steps 1 and 2, then either a return or the fallback call
ResolveFromNominatim ==
    /\ rpc = "start"
    /\ LET r == FromNominatim(candidates, t) IN
         IF r.step # 0
         THEN /\ rpc' = "returned" /\ resolved' = r.resolved /\ step' = r.step
              /\ UNCHANGED <<fallbackIssued>>
         ELSE IF COUNTRY_CODES = "gb"
         THEN /\ rpc' = "fallback" /\ fallbackIssued' = TRUE
              /\ UNCHANGED <<resolved, step>>
         ELSE LET f == FinalFallback(candidates, t) IN
              /\ rpc' = "returned" /\ resolved' = f.resolved /\ step' = f.step
              /\ UNCHANGED <<fallbackIssued>>
    /\ UNCHANGED <<t, candidates, matches>>
    /\ UNCHANGED <<rqeVars, ddVars, batchVars>>

\* overpass_find_uk_admin_relation returns ms: steps 3 and 4
FallbackReturns ==
    /\ rpc = "fallback"
    /\ \E ms \in MatchLists :
         LET r == FromFallback(candidates, t, ms) IN
           /\ matches' = ms
           /\ rpc' = "returned" /\ resolved' = r.resolved /\ step' = r.step
    /\ UNCHANGED <<t, candidates, fallbackIssued>>
    /\ UNCHANGED <<rqeVars, ddVars, batchVars>>

\* overpass_post raised inside overpass_find_uk_admin_relation: the
\* RuntimeError leaves resolve_town_no_guess uncaught
FallbackRaises ==
    /\ rpc = "fallback"
    /\ rpc' = "raised"
    /\ UNCHANGED <<t, candidates, resolved, step, matches, fallbackIssued>>
    /\ UNCHANGED <<rqeVars, ddVars, batchVars>>

NextResolve == ResolveFromNominatim \/ FallbackReturns \/ FallbackRaises

(***************************************************************************)
(* dedupe_and_sort                                                         *)
(***************************************************************************)
\* Strings are sequences of code points: 32 " ", 65 "A", 66 "B", 97 "a", 98 "b".
LowerChar(ch) == IF ch >= 65 /\ ch <= 90 THEN ch + 32 ELSE ch
\* str.lower()
StrLower(s) == [k \in 1..Len(s) |-> LowerChar(s[k])]

\* str.strip(): leading and trailing blanks removed
RECURSIVE LStrip(_)
LStrip(s) == IF s # <<>> /\ s[1] = 32 THEN LStrip(Tail(s)) ELSE s
RECURSIVE RStrip(_)
RStrip(s) ==
    IF s # <<>> /\ s[Len(s)] = 32 THEN RStrip(SubSeq(s, 1, Len(s) - 1)) ELSE s
StrStrip(s) == RStrip(LStrip(s))

\* Python's < on str: lexicographic by code point, a proper prefix is smaller
RECURSIVE StrLess(_, _)
StrLess(a, b) ==
    IF b = <<>> THEN FALSE
    ELSE IF a = <<>> THEN TRUE
    ELSE IF a[1] # b[1] THEN a[1] < b[1]
    ELSE StrLess(Tail(a), Tail(b))

\* PLACE_RANK.get(place, 99)
PLACE_RANK(place) ==
    CASE place = "suburb" -> 1
      [] place = "neighbourhood" -> 2
      [] place = "quarter" -> 3
      [] place = "village" -> 4
      [] place = "hamlet" -> 5
      [] OTHER -> 99

\* the key without .lower()
DedupeKeyCaseSensitive(c) == StrStrip(c.name)

\* key = c["name"].strip().lower()
DedupeKey(c) == StrLower(StrStrip(c.name))

\* the sort key (PLACE_RANK.get(c["place"], 99), c["name"].lower())
SortKey(c) == <<PLACE_RANK(c.place), StrLower(c.name)>>

\* Python's < on the key tuples
KeyLess(x, y) == x[1] < y[1] \/ (x[1] = y[1] /\ StrLess(x[2], y[2]))

\* the for-loop: the first child of every key, in input order
RECURSIVE Dedupe(_)
Dedupe(cs) ==
    IF cs = <<>> THEN <<>>
    ELSE LET front == SubSeq(cs, 1, Len(cs) - 1)
             c == cs[Len(cs)]
         IN  IF \E k \in 1..Len(front) : DedupeKey(front[k]) = DedupeKey(c)
             THEN Dedupe(front)
             ELSE Append(Dedupe(front), c)

\* list.sort(key=...): ascending and stable
RECURSIVE InsertByKey(_, _)
InsertByKey(sorted, c) ==
    IF sorted = <<>> THEN <<c>>
    ELSE IF ~KeyLess(SortKey(c), SortKey(sorted[Len(sorted)])) THEN Append(sorted, c)
    ELSE Append(InsertByKey(SubSeq(sorted, 1, Len(sorted) - 1), c),
                sorted[Len(sorted)])

RECURSIVE SortChildren(_)
SortChildren(cs) ==
    IF cs = <<>> THEN <<>>
    ELSE InsertByKey(SortChildren(SubSeq(cs, 1, Len(cs) - 1)), cs[Len(cs)])

dedupe_and_sort(cs) == SortChildren(Dedupe(cs))

\* "a", "A", " a", "b", "B "
Names == { <<97>>, <<65>>, <<32, 97>>, <<98>>, <<66, 32>> }
Places == {"suburb", "village", "city"}
Children == [name : Names, place : Places]

IdleDedupe == children = <<>> /\ out = <<>> /\ dpc = "idle"

InitDedupe ==
    /\ \E n \in 0..MaxChildren : children \in [1..n -> Children]
    /\ out = <<>> /\ dpc = "call"

CallDedupeAndSort ==
    /\ dpc = "call"
    /\ out' = dedupe_and_sort(children)
    /\ dpc' = "done"
    /\ UNCHANGED children
    /\ UNCHANGED <<rqeVars, resVars, batchVars>>

NextDedupe == CallDedupeAndSort

(***************************************************************************)
(* cmd_resolve, cmd_generate                                               *)
(***************************************************************************)
\* candidates[:10]
ReviewLimit == 10
\* Child_1 .. Child_25
PivotWidth == 25

Take(s, n) == SubSeq(s, 1, Min(Len(s), n))

\* resolve_town_no_guess as cmd_resolve sees it: fb is what the fallback
\* query does when it is issued (fb.raises: overpass_post raised).
\* step -1: the RuntimeError propagates.
resolve_town_no_guess(tn, cs, fb) ==
    LET r == FromNominatim(cs, tn) IN
      IF r.step # 0 THEN r
      ELSE IF COUNTRY_CODES = "gb"
      THEN IF fb.raises THEN Returned(0 - 1, NoCandidate)
           ELSE FromFallback(cs, tn, fb.matches)
      ELSE FinalFallback(cs, tn)

\* the towns of a batch, each with what the two services answer for it
BatchCandidateLists ==
    { <<>>,
      << WithId([osm_type |-> "relation", class_ |-> "boundary",
                 type_ |-> "administrative", display_name |-> {"Dudley"}], 1) >>,
      << WithId([osm_type |-> "relation", class_ |-> "boundary",
                 type_ |-> "administrative", display_name |-> {"Dudley"}], 1),
         WithId([osm_type |-> "relation", class_ |-> "boundary",
                 type_ |-> "administrative", display_name |-> {"Dudley"}], 2) >>,
      << WithId([osm_type |-> "way", class_ |-> "place",
                 type_ |-> "town", display_name |-> {"Dudley"}], 1) >> }
BatchFallbacks ==
    { [raises |-> TRUE, matches |-> <<>>],
      [raises |-> FALSE, matches |-> <<>>],
      [raises |-> FALSE, matches |-> << [rid |-> 101, nm |-> {"Dudley"}] >>] }
BatchTowns ==
    [t : {[town |-> "Dudley", county_or_region |-> "", country |-> "United Kingdom"]},
     candidates : BatchCandidateLists,
     fb : BatchFallbacks]

\* the rows of town_id_map.csv, each with what Overpass answers for it
ElementLists ==
    { <<>>,
      << [name |-> <<66, 32>>, place |-> "suburb"] >>,
      << [name |-> <<97>>, place |-> "village"], [name |-> <<65>>, place |-> "suburb"],
         [name |-> <<32>>, place |-> "suburb"], [name |-> <<98>>, place |-> ""] >> }
OverpassAnswers ==
    { [raises |-> TRUE, elements |-> <<>>] }
    \cup { [raises |-> FALSE, elements |-> e] : e \in ElementLists }
MapRows ==
    { [town |-> "Dudley", osm_type |-> "relation", osm_id |-> 7, overpass |-> a] :
        a \in OverpassAnswers }
    \cup { [town |-> "Dudley", osm_type |-> "way", osm_id |-> 8,
            overpass |-> [raises |-> FALSE, elements |-> <<>>]],
           [town |-> "", osm_type |-> "relation", osm_id |-> 9,
            overpass |-> [raises |-> FALSE, elements |-> <<>>]] }

\* extract_places: name and place tag stripped, elements missing either
\* skipped (the place tags of the model carry no blanks)
RECURSIVE extract_places(_)
extract_places(elements) ==
    IF elements = <<>> THEN <<>>
    ELSE LET el == elements[1]
             name == StrStrip(el.name)
         IN  IF name = <<>> \/ el.place = ""
             THEN extract_places(Tail(elements))
             ELSE <<[name |-> name, place |-> el.place]>> \o extract_places(Tail(elements))

IdleBatch ==
    /\ cmd = "idle" /\ rows = <<>> /\ i = 0 /\ seen = <<>>
    /\ map_rows = <<>> /\ review_rows = <<>> /\ long_rows = <<>> /\ pivot_rows = <<>>
    /\ files = {} /\ bpc = "idle"

InitBatch ==
    /\ cmd \in {"resolve", "generate"}
    /\ \E n \in 0..MaxBatch :
          rows \in [1..n -> IF cmd = "resolve" THEN BatchTowns ELSE MapRows]
    /\ i = 1 /\ seen = <<>>
    /\ map_rows = <<>> /\ review_rows = <<>> /\ long_rows = <<>> /\ pivot_rows = <<>>
    /\ files = {} /\ bpc = "loop"

MapRow(tn, c) ==
    [town |-> tn.town, county_or_region |-> tn.county_or_region, country |-> tn.country,
     osm_type |-> c.osm_type, osm_id |-> c.osm_id, display_name |-> c.display_name]

ReviewRow(tn, c) ==
    [town |-> tn.town, county_or_region |-> tn.county_or_region, country |-> tn.country,
     osm_type |-> c.osm_type, osm_id |-> c.osm_id, display_name |-> c.display_name,
     class_ |-> c.class_, type_ |-> c.type_, score |-> score_candidate(c, tn)]

\* one iteration of cmd_resolve's for-loop
ResolveTown ==
    /\ cmd = "resolve" /\ bpc = "loop" /\ i <= Len(rows)
    /\ LET row == rows[i]
           r == resolve_town_no_guess(row.t, row.candidates, row.fb)
           shown == Take(row.candidates, ReviewLimit)
       IN  IF r.step = 0 - 1
           THEN /\ bpc' = "crashed"
                /\ seen' = Append(seen, [outcome |-> "raised", map |-> 0, review |-> 0])
                /\ UNCHANGED <<i, map_rows, review_rows>>
           ELSE IF r.resolved # NoCandidate
           THEN /\ map_rows' = Append(map_rows, MapRow(row.t, r.resolved))
                /\ seen' = Append(seen, [outcome |-> "resolved", map |-> 1, review |-> 0])
                /\ i' = i + 1
                /\ UNCHANGED <<bpc, review_rows>>
           ELSE /\ review_rows' =
                     review_rows \o [k \in 1..Len(shown) |-> ReviewRow(row.t, shown[k])]
                /\ seen' = Append(seen, [outcome |-> "review", map |-> 0,
                                         review |-> Len(shown)])
                /\ i' = i + 1
                /\ UNCHANGED <<bpc, map_rows>>
    /\ UNCHANGED <<cmd, rows, long_rows, pivot_rows, files>>
    /\ UNCHANGED <<rqeVars, resVars, ddVars>>

\* the two write_csv calls after cmd_resolve's loop
WriteResolve ==
    /\ cmd = "resolve" /\ bpc = "loop" /\ i > Len(rows)
    /\ files' = {"town_id_map.csv", "needs_review.csv"}
    /\ bpc' = "done"
    /\ UNCHANGED <<cmd, rows, i, seen, map_rows, review_rows, long_rows, pivot_rows>>
    /\ UNCHANGED <<rqeVars, resVars, ddVars>>

\* row = [town] + children[:25]; row += [""] * (1 + 25 - len(row))
PivotRow(town, names) ==
    LET kept == Take(names, PivotWidth) IN
      [Parent |-> town,
       Child |-> kept \o [k \in 1..(PivotWidth - Len(kept)) |-> <<>>]]

\* one iteration of cmd_generate's for-loop (run with --no-wiki)
GenerateRow ==
    /\ cmd = "generate" /\ bpc = "loop" /\ i <= Len(rows)
    /\ LET r == rows[i] IN
         IF r.town = "" \/ r.osm_type = "" \/ r.osm_id = 0
         THEN /\ seen' = Append(seen, [outcome |-> "blank", long |-> 0, pivot |-> 0])
              /\ i' = i + 1
              /\ UNCHANGED <<bpc, long_rows, pivot_rows>>
         ELSE IF r.osm_type # "relation"
         THEN /\ seen' = Append(seen, [outcome |-> "not_relation", long |-> 0, pivot |-> 0])
              /\ i' = i + 1
              /\ UNCHANGED <<bpc, long_rows, pivot_rows>>
         ELSE IF r.overpass.raises
         THEN /\ bpc' = "crashed"
              /\ seen' = Append(seen, [outcome |-> "raised", long |-> 0, pivot |-> 0])
              /\ UNCHANGED <<i, long_rows, pivot_rows>>
         ELSE LET places == dedupe_and_sort(extract_places(r.overpass.elements)) IN
              /\ long_rows' = long_rows \o
                    [k \in 1..Len(places) |->
                       [Parent |-> r.town, Child |-> places[k].name,
                        Place_Tag |-> places[k].place,
                        Wikipedia_Title |-> "", Wikipedia_URL |-> ""]]
              /\ pivot_rows' = Append(pivot_rows,
                    PivotRow(r.town, [k \in 1..Len(places) |-> places[k].name]))
              /\ seen' = Append(seen, [outcome |-> "written", long |-> Len(places),
                                       pivot |-> 1])
              /\ i' = i + 1
              /\ UNCHANGED bpc
    /\ UNCHANGED <<cmd, rows, map_rows, review_rows, files>>
    /\ UNCHANGED <<rqeVars, resVars, ddVars>>

\* the two write_csv calls after cmd_generate's loop
WriteGenerate ==
    /\ cmd = "generate" /\ bpc = "loop" /\ i > Len(rows)
    /\ files' = {"neighbourhoods_long.csv", "neighbourhoods_pivot.csv"}
    /\ bpc' = "done"
    /\ UNCHANGED <<cmd, rows, i, seen, map_rows, review_rows, long_rows, pivot_rows>>
    /\ UNCHANGED <<rqeVars, resVars, ddVars>>

NextBatch == ResolveTown \/ WriteResolve \/ GenerateRow \/ WriteGenerate

(***************************************************************************)
(* Specifications                                                          *)
(***************************************************************************)
StartRQE == InitRQE /\ IdleResolve /\ IdleDedupe /\ IdleBatch
StartResolve == IdleRQE /\ InitResolve /\ IdleDedupe /\ IdleBatch
StartDedupe == IdleRQE /\ IdleResolve /\ InitDedupe /\ IdleBatch
StartBatch == IdleRQE /\ IdleResolve /\ IdleDedupe /\ InitBatch

SpecRQE == StartRQE /\ [][NextRQE]_vars
SpecResolve == StartResolve /\ [][NextResolve]_vars
SpecDedupe == StartDedupe /\ [][NextDedupe]_vars
SpecBatch == StartBatch /\ [][NextBatch]_vars

(***************************************************************************)
(* Properties                                                              *)
(***************************************************************************)
CeilDiv(a, b) == (a + b - 1) \div b

RECURSIVE Pow2(_)
Pow2(n) == IF n = 0 THEN 1 ELSE 2 * Pow2(n - 1)

\* the two highest values of score_candidate over the candidates are equal
TopTwoEqual ==
    \E a \in 1..Len(candidates), b \in 1..Len(candidates) :
       /\ a # b
       /\ score_candidate(candidates[a], t) = score_candidate(candidates[b], t)
       /\ \A k \in 1..Len(candidates) :
             score_candidate(candidates[k], t) <= score_candidate(candidates[a], t)

\* candidate k is a relation of class boundary and subtype administrative
BoundaryRelationAt(k) ==
    /\ candidates[k].osm_type = "relation"
    /\ candidates[k].class_ = "boundary"
    /\ candidates[k].type_ = "administrative"

BoundaryRelations == {k \in 1..Len(candidates) : BoundaryRelationAt(k)}

\* C1 as stated: when the two highest scores over the candidates are equal,
\* resolve_town_no_guess never returns a resolved candidate.
C1_TieNeverResolves ==
    (rpc = "returned" /\ TopTwoEqual) => resolved = NoCandidate

\* C1 as amended: when the two highest scores over the candidates are equal,
\* a resolved candidate is returned only by step 1 (exactly one candidate is
\* a boundary/administrative relation) or by step 3 (the fallback query
\* returned exactly one match); the score comparisons of steps 2 and 4 never
\* resolve, and without either of those two cases the result is None.
C1_TieResolvesOnlyByUniqueBoundary ==
    (rpc = "returned" /\ TopTwoEqual) =>
       \/ resolved = NoCandidate /\ step = 5
       \/ /\ step = 1
          /\ Cardinality(BoundaryRelations) = 1
          /\ \E k \in BoundaryRelations : resolved = candidates[k]
       \/ /\ step = 3
          /\ Cardinality(BoundaryRelations) # 1
          /\ Len(matches) = 1
          /\ resolved.osm_id = matches[1].rid

\* two boundary/administrative relations with equal top scores, the fallback
\* query went out and matched nothing or several: the request goes to review
C1_Witness ==
    /\ rpc = "returned" /\ TopTwoEqual
    /\ Cardinality(BoundaryRelations) = 2
    /\ fallbackIssued /\ Len(matches) # 1
    /\ resolved = NoCandidate

\* C2: when exactly one candidate is a relation of class boundary and subtype
\* administrative, resolve_town_no_guess returns exactly that candidate,
\* whatever the scores, and the fallback boundary query is never issued.
C2_UniqueBoundaryRelationResolves ==
    (rpc # "start" /\ Cardinality(BoundaryRelations) = 1) =>
       /\ rpc = "returned"
       /\ \E k \in BoundaryRelations : resolved = candidates[k]
       /\ ~fallbackIssued
       /\ matches = <<>>

\* the unique boundary relation is returned although another candidate
\* scores at least as high
C2_Witness ==
    /\ rpc = "returned"
    /\ Cardinality(BoundaryRelations) = 1
    /\ \E k \in BoundaryRelations :
          /\ resolved = candidates[k]
          /\ \E j \in 1..Len(candidates) :
                /\ j # k
                /\ score_candidate(candidates[j], t) >= score_candidate(candidates[k], t)

\* C3: while every attempt so far answered 429/502/503/504 and fewer than
\* 6*N attempts were made, overpass_post keeps attempting; when attempt K then
\* succeeds with a parsable body it returns the body, K is the last attempt,
\* and it is in round ceil(K/N), so at most ceil(K/N)*N attempts were made.
C3_SuccessAfterTransientFailures ==
    /\ (transientOnly /\ okAt = 0 /\ attempts < 6 * endpoints) => pc = "attempt"
    /\ (transientOnly /\ okAt # 0) =>
          /\ pc = "returned"
          /\ result = "body"
          /\ attempts = okAt
          /\ okAt <= 6 * endpoints
          /\ round = CeilDiv(okAt, endpoints)
          /\ attempts <= CeilDiv(okAt, endpoints) * endpoints

\* success on the very last attempt of the last round, after rate limits and
\* server errors only
C3_Witness ==
    /\ pc = "returned" /\ transientOnly /\ ~rateOnly
    /\ endpoints = 4 /\ okAt = 24 /\ result = "body"

\* C4: when every attempt answers 429, the attempts go round the endpoint list
\* in order, once per endpoint and round, overpass_post never returns, and it
\* raises after exactly 6 rounds, that is 6*N attempts.
C4_AllRateLimitedExhausts ==
    (rateOnly /\ okAt = 0) =>
       /\ pc \in {"attempt", "raised"}
       /\ result = "None"
       /\ attempts <= 6 * endpoints
       /\ pc = "attempt" =>
             /\ url = (attempts % endpoints) + 1
             /\ round = (attempts \div endpoints) + 1
       /\ pc = "raised" => (round = 6 /\ url = endpoints /\ attempts = 6 * endpoints)

\* the four configured endpoints, 24 rate-limited attempts, then the raise
C4_Witness ==
    /\ rateOnly /\ okAt = 0 /\ pc = "raised"
    /\ endpoints = 4 /\ attempts = 24

\* every other entity of a cmd_generate batch: a row that is not skipped and
\* whose own child-place query does not fail
GenerateOwed(j) ==
    /\ rows[j].town # "" /\ rows[j].osm_type = "relation" /\ rows[j].osm_id # 0
    /\ ~rows[j].overpass.raises

\* every other town of a cmd_resolve batch: its own fallback query does not fail
ResolveOwed(j) == ~rows[j].fb.raises

\* C5: once the command has ended, every entity whose own query did not fail
\* was processed and the output files with its rows were written.
C5_FailureIsolatedPerEntity ==
    (bpc \in {"done", "crashed"}) =>
       /\ cmd = "generate" =>
             \A j \in 1..Len(rows) : GenerateOwed(j) =>
                /\ j <= Len(seen) /\ seen[j].outcome = "written"
                /\ {"neighbourhoods_long.csv", "neighbourhoods_pivot.csv"} \subseteq files
       /\ cmd = "resolve" =>
             \A j \in 1..Len(rows) : ResolveOwed(j) =>
                /\ j <= Len(seen) /\ seen[j].outcome \in {"resolved", "review"}
                /\ {"town_id_map.csv", "needs_review.csv"} \subseteq files

\* the failure signal an exception stored in last_err stands for
SignalOf(err) ==
    CASE err = "ConnectionError" -> "transport"
      [] err = "HTTPError" -> "http_error"
      [] err = "JSONDecodeError" -> "parse"
      [] OTHER -> "none"

\* C6: the error raised after the rounds are exhausted carries the failure
\* signal of the most recent failed attempt, and is never empty.
C6_RaisedErrorCarriesLastSignal ==
    pc = "raised" => (last_err # "None" /\ SignalOf(last_err) = lastSignal)

\* the key of the claim: the lowercase-trimmed name
TrimmedLowerName(c) == StrLower(StrStrip(c.name))

\* the first child of the input with the key of c
FirstWithKey(c) ==
    LET first == CHOOSE k \in 1..Len(children) :
                    /\ TrimmedLowerName(children[k]) = TrimmedLowerName(c)
                    /\ \A m \in 1..(k - 1) :
                          TrimmedLowerName(children[m]) # TrimmedLowerName(c)
    IN  children[first]

\* (place-kind rank, lowercase name) of the claim
RankOf(c) ==
    CASE c.place = "suburb" -> 1 [] c.place = "neighbourhood" -> 2
      [] c.place = "quarter" -> 3 [] c.place = "village" -> 4
      [] c.place = "hamlet" -> 5 [] OTHER -> 99

StrictlyBefore(x, y) ==
    \/ RankOf(x) < RankOf(y)
    \/ RankOf(x) = RankOf(y) /\ StrLess(StrLower(x.name), StrLower(y.name))

\* C7: dedupe_and_sort returns exactly one entry per distinct
\* lowercase-trimmed name, the first occurrence of that name in the input,
\* in strictly ascending order of (place-kind rank, lowercase name).
C7_DedupeFirstWinsSortedStrictly ==
    dpc = "done" =>
       /\ \A k \in 1..Len(children) :
             Cardinality({m \in 1..Len(out) :
                TrimmedLowerName(out[m]) = TrimmedLowerName(children[k])}) = 1
       /\ \A m \in 1..Len(out) :
             /\ \E k \in 1..Len(children) : out[m] = children[k]
             /\ out[m] = FirstWithKey(out[m])
       /\ \A m \in 1..Len(out), n \in 1..Len(out) :
             m < n => StrictlyBefore(out[m], out[n])

\* "A"/suburb then "a"/village: only "A"/suburb is kept
C7_Witness ==
    /\ dpc = "done"
    /\ children = << [name |-> <<65>>, place |-> "suburb"],
                     [name |-> <<97>>, place |-> "village"] >>
    /\ out = << [name |-> <<65>>, place |-> "suburb"] >>

\* C8: a backoff sleep happens only between two rounds, so there is one per
\* round already left behind and none after the final round; the k-th one
\* lasts min(2 * 2^(k-1), 60) seconds.
C8_BackoffOnlyBetweenRounds ==
    /\ Len(sleeps) = round - 1
    /\ \A k \in 1..Len(sleeps) : sleeps[k] = Min(2 * Pow2(k - 1), 60)

\* C9: whatever step resolves, the resolved candidate is a relation.
C9_ResolvedIsRelation ==
    (rpc = "returned" /\ resolved # NoCandidate) => resolved.osm_type = "relation"

\* C10: after cmd_resolve has processed a batch, every request has either
\* exactly one row in the resolved map and none in the review table, or at
\* least one row in the review table and none in the map.
C10_EveryRequestAccountedOnce ==
    (cmd = "resolve" /\ bpc = "done") =>
       \A j \in 1..Len(rows) :
          /\ j <= Len(seen)
          /\ \/ seen[j].map = 1 /\ seen[j].review = 0
             \/ seen[j].map = 0 /\ seen[j].review >= 1
====
